---- MODULE Spec2Model ----
(***************************************************************************)
(* Model of the trial-generation engine (src/engine.js) and of the session *)
(* runner (session.js, kept in src/unnamed/part_000).                      *)
(*                                                                         *)
(* engine.js declares several functions twice: the engine proper (lines    *)
(* 1-448) and a second group of declarations of the same names (lines      *)
(* 450-661).  Where the two declarations differ, both are modelled: the    *)
(* first keeps the source's name, the second carries the suffix 2.         *)
(*                                                                         *)
(* The engine's functions are pure up to Math.random().  Each is an        *)
(* operator; every Math.random() result it consumes is an explicit         *)
(* argument, and the actions draw those arguments from RandomValues.       *)
(***************************************************************************)
EXTENDS Integers, Sequences, FiniteSets, TLC

VARIABLES fn, args, ret, globals,
          isRunning, allTrialData, currentSessionDef, runs, exportEnabled

\* the state of the engine calls
engineVars == <<fn, args, ret, globals>>

\* the state of the session runner
sessionVars == <<isRunning, allTrialData, currentSessionDef, runs, exportEnabled>>

vars == <<fn, args, ret, globals,
          isRunning, allTrialData, currentSessionDef, runs, exportEnabled>>

----------------------------------------------------------------------------
(* JavaScript values.  A numeric slot of an object can hold a number,      *)
(* undefined, NaN or null; such slots hold a tagged record.  Task slots    *)
(* hold one of the strings "mov", "or", or TaskNull for null.              *)

Num(x) == [k |-> "number", n |-> x]

Undefined == [k |-> "undefined", n |-> 0]

NaN == [k |-> "NaN", n |-> 0]

Null == [k |-> "null", n |-> 0]

TaskNull == "null"

\* a + b on numeric slots: ToNumber(undefined) = NaN, ToNumber(null) = 0
JsAdd(a, b) ==
    IF a.k \in {"undefined", "NaN"} \/ b.k \in {"undefined", "NaN"}
    THEN NaN
    ELSE Num((IF a.k = "null" THEN 0 ELSE a.n) + (IF b.k = "null" THEN 0 ELSE b.n))

\* a - b on numeric slots
JsSub(a, b) ==
    IF a.k \in {"undefined", "NaN"} \/ b.k \in {"undefined", "NaN"}
    THEN NaN
    ELSE Num((IF a.k = "null" THEN 0 ELSE a.n) - (IF b.k = "null" THEN 0 ELSE b.n))

\* v === 0
StrictEqZero(v) == v.k = "number" /\ v.n = 0

\* v > 0
JsGtZero(v) == (v.k = "number" /\ v.n > 0)

\* obj.f, undefined when the property is absent
Get(obj, f) == IF f \in DOMAIN obj THEN obj[f] ELSE Undefined

EmptyObj == [f \in {} |-> Undefined]

\* outcome of a call
Return(v) == [kind |-> "return", value |-> v]

Throw(e) == [kind |-> "throw", value |-> e]

----------------------------------------------------------------------------
(* Utility *)

switchTask(task) == IF task = "mov" THEN "or" ELSE "mov"

----------------------------------------------------------------------------
(* SE parameter builders (first declarations) *)

\* deliberately wrong variant of buildCoherenceParams: without a second task
\* the channel-2 coherences of the spec are passed on
buildCoherenceParams_ch2Kept(spec) ==
    LET ch1 ==
            IF spec.task1 = "mov"
            THEN ("coh_mov_1" :> Num(spec.coherence.ch1_task))
                 @@ ("coh_or_1" :> Num(spec.coherence.ch1_distractor))
            ELSE ("coh_or_1" :> Num(spec.coherence.ch1_task))
                 @@ ("coh_mov_1" :> Num(spec.coherence.ch1_distractor))
        ch2 ==
            IF spec.task2 = "or"
            THEN ("coh_or_2" :> Num(spec.coherence.ch2_task))
                 @@ ("coh_mov_2" :> Num(spec.coherence.ch2_distractor))
            ELSE ("coh_mov_2" :> Num(spec.coherence.ch2_task))
                 @@ ("coh_or_2" :> Num(spec.coherence.ch2_distractor))
    IN  ch1 @@ ch2

buildCoherenceParams(spec) ==
    LET ch1 ==
            IF spec.task1 = "mov"
            THEN ("coh_mov_1" :> Num(spec.coherence.ch1_task))
                 @@ ("coh_or_1" :> Num(spec.coherence.ch1_distractor))
            ELSE IF spec.task1 = "or"
            THEN ("coh_or_1" :> Num(spec.coherence.ch1_task))
                 @@ ("coh_mov_1" :> Num(spec.coherence.ch1_distractor))
            ELSE EmptyObj
        ch2 ==
            IF spec.task2 # TaskNull
            THEN IF spec.task2 = "mov"
                 THEN ("coh_mov_2" :> Num(spec.coherence.ch2_task))
                      @@ ("coh_or_2" :> Num(spec.coherence.ch2_distractor))
                 ELSE IF spec.task2 = "or"
                 THEN ("coh_or_2" :> Num(spec.coherence.ch2_task))
                      @@ ("coh_mov_2" :> Num(spec.coherence.ch2_distractor))
                 ELSE EmptyObj
            ELSE ("coh_mov_2" :> Num(0)) @@ ("coh_or_2" :> Num(0))
    IN  ch1 @@ ch2

\* spec.dir is an object here; its four slots may hold undefined.
buildDirectionParams(spec) ==
    LET ch1 ==
            IF spec.task1 = "mov"
            THEN ("dir_mov_1" :> spec.dir.ch1_task)
                 @@ ("dir_or_1" :> spec.dir.ch1_distractor)
            ELSE IF spec.task1 = "or"
            THEN ("dir_or_1" :> spec.dir.ch1_task)
                 @@ ("dir_mov_1" :> spec.dir.ch1_distractor)
            ELSE EmptyObj
        ch2 ==
            IF spec.task2 # TaskNull
            THEN IF spec.task2 = "mov"
                 THEN ("dir_mov_2" :> spec.dir.ch2_task)
                      @@ ("dir_or_2" :> spec.dir.ch2_distractor)
                 ELSE IF spec.task2 = "or"
                 THEN ("dir_or_2" :> spec.dir.ch2_task)
                      @@ ("dir_mov_2" :> spec.dir.ch2_distractor)
                 ELSE EmptyObj
            ELSE ("dir_mov_2" :> Num(0)) @@ ("dir_or_2" :> Num(0))
    IN  ch1 @@ ch2

buildTimingParams(spec) ==
    LET ch1 ==
            [start_1     |-> Num(0),
             dur_1       |-> Num(spec.csi + spec.dur_ch1),
             start_go_1  |-> Num(spec.csi),
             dur_go_1    |-> Num(spec.responseWindow),
             start_mov_1 |-> Num(spec.csi),
             dur_mov_1   |-> Num(spec.dur_ch1),
             start_or_1  |-> Num(spec.csi),
             dur_or_1    |-> Num(spec.dur_ch1)]
        ch2RelativeOffset == spec.soa - spec.dur_ch1
        ch2 ==
            IF spec.task2 # TaskNull
            THEN [start_2     |-> Num(spec.csi + spec.soa),
                  dur_2       |-> Num(spec.dur_ch2),
                  start_go_2  |-> Num(spec.csi + spec.soa),
                  dur_go_2    |-> Num(spec.responseWindow),
                  start_mov_2 |-> Num(ch2RelativeOffset),
                  dur_mov_2   |-> Num(spec.dur_ch2),
                  start_or_2  |-> Num(ch2RelativeOffset),
                  dur_or_2    |-> Num(spec.dur_ch2)]
            ELSE [start_2     |-> Num(0),
                  dur_2       |-> Num(0),
                  start_go_2  |-> Num(0),
                  dur_go_2    |-> Num(0),
                  start_mov_2 |-> Num(0),
                  dur_mov_2   |-> Num(0),
                  start_or_2  |-> Num(0),
                  dur_or_2    |-> Num(0)]
    IN  ch1 @@ ch2

\* deliberately wrong variant of silencePathway: the duration is zeroed, the start is left
silencePathway_durOnly(params, X) ==
    IF StrictEqZero(Get(params, "coh_" \o X))
    THEN [params EXCEPT !["dur_" \o X] = Num(0)]
    ELSE params

\* if (params.coh_X === 0) { params.start_X = 0; params.dur_X = 0; }
silencePathway(params, X) ==
    IF StrictEqZero(Get(params, "coh_" \o X))
    THEN [params EXCEPT !["start_" \o X] = Num(0), !["dur_" \o X] = Num(0)]
    ELSE params

\* deliberately wrong variant of silencePathways: a channel whose two
\* pathways are both silenced loses its cue as well
silencePathways_cueToo(params) ==
    LET p == silencePathway(silencePathway(silencePathway(silencePathway(
                 params, "mov_1"), "or_1"), "mov_2"), "or_2")
        p1 == IF StrictEqZero(Get(p, "coh_mov_1")) /\ StrictEqZero(Get(p, "coh_or_1"))
              THEN [p EXCEPT !["dur_1"] = Num(0)] ELSE p
    IN  IF StrictEqZero(Get(p1, "coh_mov_2")) /\ StrictEqZero(Get(p1, "coh_or_2"))
        THEN [p1 EXCEPT !["start_2"] = Num(0), !["dur_2"] = Num(0)] ELSE p1

\* the four silencing statements, in source order
silencePathways(params) ==
    silencePathway(silencePathway(silencePathway(silencePathway(
        params, "mov_1"), "or_1"), "mov_2"), "or_2")

\* deliberately wrong variant of recomputeOffset: a negative offset is clamped to 0
recomputeOffset_clamped(params, X, desiredCh2Start) ==
    LET X1End == JsAdd(Get(params, "start_" \o X \o "_1"),
                       Get(params, "dur_" \o X \o "_1"))
        off == JsSub(Num(desiredCh2Start), X1End)
    IN  IF JsGtZero(Get(params, "dur_" \o X \o "_2"))
        THEN [params EXCEPT !["start_" \o X \o "_2"] =
                                IF off.k = "number" /\ off.n < 0 THEN Num(0) ELSE off]
        ELSE params

\* if (params.dur_X_2 > 0) params.start_X_2 = desiredCh2Start - X1End
recomputeOffset(params, X, desiredCh2Start) ==
    LET X1End == JsAdd(Get(params, "start_" \o X \o "_1"),
                       Get(params, "dur_" \o X \o "_1"))
    IN  IF JsGtZero(Get(params, "dur_" \o X \o "_2"))
        THEN [params EXCEPT !["start_" \o X \o "_2"] =
                                JsSub(Num(desiredCh2Start), X1End)]
        ELSE params

\* deliberately wrong variant of recomputeOffsets: the offsets of buildTimingParams are kept
recomputeOffsets_skipped(spec, params) == params

\* the block guarded by spec.task2 !== null
recomputeOffsets(spec, params) ==
    IF spec.task2 # TaskNull
    THEN recomputeOffset(recomputeOffset(params, "mov", spec.csi + spec.soa),
                         "or", spec.csi + spec.soa)
    ELSE params

\* Object spread: a later spread overrides an earlier one, so the later
\* operand stands to the left of @@.
buildTrialParams(spec) ==
    IF spec.dir = Undefined
    THEN Throw("TypeError")
    ELSE LET params == buildDirectionParams(spec)
                       @@ buildCoherenceParams(spec)
                       @@ buildTimingParams(spec)
                       @@ [task_1 |-> spec.task1, task_2 |-> spec.task2]
         IN  Return(recomputeOffsets(spec, silencePathways(params)))

\* Second declaration of buildTrialParams (engine.js:450).  It destructures
\* its argument: a property the object lacks arrives as undefined.
\* "dir_1 == undefined" is the loose comparison, true of undefined and null.
buildTrialParams2(spec) ==
    IF spec.dir_1.k \in {"undefined", "null"}
    THEN Throw("Error: buildTrialParams: dir_1 is required")
    ELSE Return([task_1  |-> spec.task1,
                 start_1 |-> Num(0),
                 dur_1   |-> JsAdd(Num(spec.csi), spec.stimulusDuration)])

\* Second declaration of buildDirectionParams (engine.js:497).  It reads the
\* flat properties dir_ch_1, dir_distractor_1, dir_ch_2, dir_distractor_2 of
\* the spec, not spec.dir; a property the spec lacks reads as undefined.
buildDirectionParams2(spec) ==
    LET ch1 ==
            IF spec.task1 = "mov"
            THEN ("dir_mov_1" :> Get(spec, "dir_ch_1"))
                 @@ ("dir_or_1" :> Get(spec, "dir_distractor_1"))
            ELSE IF spec.task1 = "or"
            THEN ("dir_or_1" :> Get(spec, "dir_ch_1"))
                 @@ ("dir_mov_1" :> Get(spec, "dir_distractor_1"))
            ELSE EmptyObj
        ch2 ==
            IF spec.task2 # TaskNull
            THEN IF spec.task2 = "mov"
                 THEN ("dir_mov_2" :> Get(spec, "dir_ch_2"))
                      @@ ("dir_or_2" :> Get(spec, "dir_distractor_2"))
                 ELSE IF spec.task2 = "or"
                 THEN ("dir_or_2" :> Get(spec, "dir_ch_2"))
                      @@ ("dir_mov_2" :> Get(spec, "dir_distractor_2"))
                 ELSE EmptyObj
            ELSE ("dir_mov_2" :> Num(0)) @@ ("dir_or_2" :> Num(0))
    IN  ch1 @@ ch2

----------------------------------------------------------------------------
(* Math.random().  A draw k stands for the value k / RandDen of [0, 1).    *)

RandDen == 4

RandomValues == 0 .. (RandDen - 1)

\* Math.random() < 0.5
lessThanHalf(r) == 2 * r < RandDen

\* Math.floor(Math.random() * len)
floorTimes(r, len) == (r * len) \div RandDen

----------------------------------------------------------------------------
(* Sequence generators.  JavaScript arrays are 0-based, TLA+ sequences     *)
(* 1-based: sequence[i] of the source is seq[i + 1] here.                  *)

\* deliberately wrong variant of firstTaskOf: the seed task is ignored, the coin always decides
firstTaskOf_coinOnly(startTask, r) ==
    IF lessThanHalf(r) THEN "mov" ELSE "or"

\* startTask ?? (Math.random() < 0.5 ? 'mov' : 'or')
firstTaskOf(startTask, r) ==
    IF startTask # TaskNull THEN startTask
    ELSE IF lessThanHalf(r) THEN "mov" ELSE "or"

\* deliberately wrong variant of randomStep: the comparison with switchRate / 100 is <=
randomStep_orEqual(prev, switchRate, r) ==
    IF 100 * r <= switchRate * RandDen THEN switchTask(prev) ELSE prev

\* Math.random() < (switchRate / 100) ? switchTask(prev) : prev
randomStep(prev, switchRate, r) ==
    IF 100 * r < switchRate * RandDen THEN switchTask(prev) ELSE prev

\* first declaration: if (i % 2 === 0) switch, else repeat
aabbStep(prev, i) == IF i % 2 = 0 THEN switchTask(prev) ELSE prev

\* second declaration: runPosition = i % 4; if (runPosition === 2) switch,
\* else repeat
aabbStep2(prev, i) == IF i % 4 = 2 THEN switchTask(prev) ELSE prev

\* the for loop "for (let i = 1; i < numTrials; i++)" of the Random branch,
\* from index i on; steps[i] is the draw of iteration i
RECURSIVE randomLoop(_, _, _, _, _)
randomLoop(seq, i, numTrials, switchRate, steps) ==
    IF i < numTrials
    THEN randomLoop(Append(seq, randomStep(seq[i], switchRate, steps[i])),
                    i + 1, numTrials, switchRate, steps)
    ELSE seq

\* the for loop of the AABB branch, first declaration
RECURSIVE aabbLoop(_, _, _)
aabbLoop(seq, i, numTrials) ==
    IF i < numTrials
    THEN aabbLoop(Append(seq, aabbStep(seq[i], i)), i + 1, numTrials)
    ELSE seq

\* the for loop of the AABB branch, second declaration
RECURSIVE aabbLoop2(_, _, _)
aabbLoop2(seq, i, numTrials) ==
    IF i < numTrials
    THEN aabbLoop2(Append(seq, aabbStep2(seq[i], i)), i + 1, numTrials)
    ELSE seq

\* deliberately wrong variant of generateTaskSequence: every sequenceType
\* other than 'Random' is taken for 'AABB'
generateTaskSequence_unknownAsAabb(numTrials, sequenceType, switchRate, startTask, rnd) ==
    LET sequence == <<firstTaskOf(startTask, rnd.first)>>
    IN  IF sequenceType = "Random"
        THEN Return(randomLoop(sequence, 1, numTrials, switchRate, rnd.steps))
        ELSE Return(aabbLoop(sequence, 1, numTrials))

\* rnd.first is the draw of the coin flip, rnd.steps the draws of the loop
generateTaskSequence(numTrials, sequenceType, switchRate, startTask, rnd) ==
    LET sequence == <<firstTaskOf(startTask, rnd.first)>>
    IN  IF sequenceType = "Random"
        THEN Return(randomLoop(sequence, 1, numTrials, switchRate, rnd.steps))
        ELSE IF sequenceType = "AABB"
        THEN Return(aabbLoop(sequence, 1, numTrials))
        ELSE Throw("Error: Unknown sequenceType")

\* second declaration of generateTaskSequence (engine.js:587)
generateTaskSequence2(numTrials, sequenceType, switchRate, startTask, rnd) ==
    LET sequence == <<firstTaskOf(startTask, rnd.first)>>
    IN  IF sequenceType = "Random"
        THEN Return(randomLoop(sequence, 1, numTrials, switchRate, rnd.steps))
        ELSE IF sequenceType = "AABB"
        THEN Return(aabbLoop2(sequence, 1, numTrials))
        ELSE Throw("Error: Unknown sequenceType")

\* deliberately wrong variant of classifyTransitions: each task is compared
\* with the first task instead of the previous one
classifyTransitions_fromFirst(taskSequence) ==
    [i \in 1 .. Len(taskSequence) |->
        IF i = 1 THEN "First"
        ELSE IF taskSequence[i] = taskSequence[1] THEN "Repeat" ELSE "Switch"]

\* taskSequence.map((task, i) => i === 0 ? 'First' : task === taskSequence[i - 1]
\* ? 'Repeat' : 'Switch'); the declaration at 651-656 is the same
classifyTransitions(taskSequence) ==
    [i \in 1 .. Len(taskSequence) |->
        IF i = 1 THEN "First"
        ELSE IF taskSequence[i] = taskSequence[i - 1] THEN "Repeat" ELSE "Switch"]

\* a proportion is held in quarters (q stands for q / 4, exact in binary
\* floating point); Math.round rounds a half upwards
roundCount(numTrials, q) == (2 * numTrials * q + 4) \div 8

\* count copies of label pushed onto seq: "for (let j = 0; j < count; j++)"
RECURSIVE pushCopies(_, _, _)
pushCopies(seq, label, count) ==
    IF count > 0 THEN pushCopies(Append(seq, label), label, count - 1) ELSE seq

\* the loop over the conditions, from condition i (1-based) on
RECURSIVE assignCounts(_, _, _, _, _, _)
assignCounts(seq, assigned, i, numTrials, conditions, proportions) ==
    IF i > Len(conditions) THEN seq
    ELSE LET count == IF i = Len(conditions)
                      THEN numTrials - assigned
                      ELSE roundCount(numTrials, proportions[i])
         IN  assignCounts(pushCopies(seq, conditions[i], count), assigned + count,
                          i + 1, numTrials, conditions, proportions)

\* Fisher-Yates: for (i = length - 1; i > 0; i--) swap sequence[i] with
\* sequence[floor(random * (i + 1))]; draws[i] is the draw of iteration i
RECURSIVE shuffle(_, _, _)
shuffle(seq, i, draws) ==
    IF i > 0
    THEN LET j == floorTimes(draws[i], i + 1)
         IN  shuffle([seq EXCEPT ![i + 1] = seq[j + 1], ![j + 1] = seq[i + 1]],
                     i - 1, draws)
    ELSE seq

generateCongruencySequence(numTrials, conditions, proportions, draws) ==
    LET sequence == assignCounts(<<>>, 0, 1, numTrials, conditions, proportions)
    IN  shuffle(sequence, Len(sequence) - 1, draws)

----------------------------------------------------------------------------
(* Distribution sampler and direction assignment *)

NullString == "null"

\* !config.params: the object has no params property
HasParams(config) == "params" \in DOMAIN config

\* deliberately wrong variant of uniformValue: the draw scales max, not the
\* width max - min
uniformValue_scaledByMax(min, max, r) == min + (r * max) \div RandDen

\* min + Math.random() * (max - min); the bounds of the modelled uniform
\* distributions lie a multiple of 20 apart, so the division is exact
uniformValue(min, max, r) == min + (r * (max - min)) \div RandDen

\* deliberately wrong variant of sampleFromDistribution: an unknown type
\* falls back to config.value
sampleFromDistribution_unknownFallsBack(config, r) ==
    IF config.type = "uniform" /\ HasParams(config) /\ Len(config.params) >= 2
    THEN LET min == IF config.params[1] <= config.params[2]
                    THEN config.params[1] ELSE config.params[2]
             max == IF config.params[1] >= config.params[2]
                    THEN config.params[1] ELSE config.params[2]
         IN  Return(Num(uniformValue(min, max, r)))
    ELSE IF config.type = "choice" /\ HasParams(config) /\ Len(config.params) > 0
    THEN Return(Num(config.params[floorTimes(r, Len(config.params)) + 1]))
    ELSE Return(Num(config.value))

\* deliberately wrong variant of sampleFromDistribution: missing or short
\* params are an error
sampleFromDistribution_strictParams(config, r) ==
    IF config.type = "fixed"
    THEN Return(Num(config.value))
    ELSE IF config.type = "uniform"
    THEN IF ~HasParams(config) \/ Len(config.params) < 2
         THEN Throw("Error: uniform requires params [min, max]")
         ELSE LET min == IF config.params[1] <= config.params[2]
                         THEN config.params[1] ELSE config.params[2]
                  max == IF config.params[1] >= config.params[2]
                         THEN config.params[1] ELSE config.params[2]
              IN  Return(Num(uniformValue(min, max, r)))
    ELSE IF config.type = "choice"
    THEN IF ~HasParams(config) \/ Len(config.params) = 0
         THEN Throw("Error: choice requires non-empty params")
         ELSE Return(Num(config.params[floorTimes(r, Len(config.params)) + 1]))
    ELSE Throw("Error: sampleFromDistribution: unknown type")

sampleFromDistribution(config, r) ==
    IF config.type = "fixed"
    THEN Return(Num(config.value))
    ELSE IF config.type = "uniform"
    THEN IF ~HasParams(config) \/ Len(config.params) < 2
         THEN Return(Num(config.value))
         ELSE LET min == IF config.params[1] <= config.params[2]
                         THEN config.params[1] ELSE config.params[2]
                  max == IF config.params[1] >= config.params[2]
                         THEN config.params[1] ELSE config.params[2]
              IN  Return(Num(uniformValue(min, max, r)))
    ELSE IF config.type = "choice"
    THEN IF ~HasParams(config) \/ Len(config.params) = 0
         THEN Return(Num(config.value))
         ELSE Return(Num(config.params[floorTimes(r, Len(config.params)) + 1]))
    ELSE Throw("Error: sampleFromDistribution: unknown type")

\* Math.random() < 0.5 ? a : b
coin(r, a, b) == IF lessThanHalf(r) THEN a ELSE b

\* deliberately wrong variant of assignDirections: an incongruent distractor
\* gets the primary direction
assignDirections_incongruentSame(task, congruency, paradigm, rso, rnd) ==
    IF paradigm = "dual-task"
    THEN [ch1_task       |-> Num(coin(rnd[1], 0, 180)),
          ch1_distractor |-> Num(0),
          ch2_task       |-> Num(coin(rnd[2], 0, 180)),
          ch2_distractor |-> Num(0)]
    ELSE LET primaryDir == coin(rnd[1], 0, 180)
             distractorDir ==
                 IF congruency \in {"congruent", "incongruent"} THEN primaryDir
                 ELSE IF congruency = "neutral" THEN coin(rnd[2], 90, 270)
                 ELSE 0
         IN  [ch1_task       |-> Num(primaryDir),
              ch1_distractor |-> Num(distractorDir),
              ch2_task       |-> Num(0),
              ch2_distractor |-> Num(0)]

\* deliberately wrong variant of assignDirections: with rso = 'disjoint' the
\* channel-2 direction of a dual-task trial is drawn from the vertical axis
assignDirections_disjointVertical(task, congruency, paradigm, rso, rnd) ==
    IF paradigm = "dual-task"
    THEN [ch1_task       |-> Num(coin(rnd[1], 0, 180)),
          ch1_distractor |-> Num(0),
          ch2_task       |-> Num(IF rso = "disjoint" THEN coin(rnd[2], 90, 270)
                                 ELSE coin(rnd[2], 0, 180)),
          ch2_distractor |-> Num(0)]
    ELSE [ch1_task       |-> Num(coin(rnd[1], 0, 180)),
          ch1_distractor |-> Num(0),
          ch2_task       |-> Num(0),
          ch2_distractor |-> Num(0)]

\* rnd[1], rnd[2]: the draws in call order (the second one is taken in the
\* dual-task branch and for a neutral distractor only)
assignDirections(task, congruency, paradigm, rso, rnd) ==
    IF paradigm = "dual-task"
    THEN [ch1_task       |-> Num(coin(rnd[1], 0, 180)),
          ch1_distractor |-> Num(0),
          ch2_task       |-> Num(coin(rnd[2], 0, 180)),
          ch2_distractor |-> Num(0)]
    ELSE LET primaryDir == coin(rnd[1], 0, 180)
             distractorDir ==
                 IF congruency = "congruent" THEN primaryDir
                 ELSE IF congruency = "incongruent"
                 THEN (IF primaryDir = 0 THEN 180 ELSE 0)
                 ELSE IF congruency = "neutral" THEN coin(rnd[2], 90, 270)
                 ELSE 0
         IN  [ch1_task       |-> Num(primaryDir),
              ch1_distractor |-> Num(distractorDir),
              ch2_task       |-> Num(0),
              ch2_distractor |-> Num(0)]

----------------------------------------------------------------------------
(* Block trial generation.  generateBlockTrials is modelled with the first *)
(* declarations of generateTaskSequence and buildTrialParams, the ones     *)
(* whose results test_engine.js describes.                                 *)

\* deliberately wrong variant of soaOrZero: the sampled soa is dropped
soaOrZero_dropped(soa) == 0

\* soa ?? 0
soaOrZero(soa) == IF soa.k \in {"null", "undefined"} THEN 0 ELSE soa.n

\* deliberately wrong variant of secondTask: the second task is read from the
\* block configuration
secondTask_fromConfig(blockConfig, task1) == blockConfig.task2

\* task2 of a trial: switchTask(taskSequence[i]) if isDualTask, else null
secondTask(blockConfig, task1) ==
    IF blockConfig.paradigm = "dual-task" THEN switchTask(task1) ELSE TaskNull

\* deliberately wrong variant of sampleSoa: the soa distribution is sampled
\* for every paradigm
sampleSoa_always(blockConfig, r) == sampleFromDistribution(blockConfig.soa, r)

\* isDualTask ? sampleFromDistribution(blockConfig.soa) : null
sampleSoa(blockConfig, r) ==
    IF blockConfig.paradigm = "dual-task"
    THEN sampleFromDistribution(blockConfig.soa, r)
    ELSE Return(Null)

\* one iteration of the assembly loop, for the 1-based position i (the
\* source's i is i - 1); rnd holds the draws of this iteration
assembleTrial(blockConfig, i, taskSequence, transitions, congruencySequence, rnd) ==
    LET isDualTask == blockConfig.paradigm = "dual-task"
        task1 == taskSequence[i]
        task2 == secondTask(blockConfig, taskSequence[i])
        congruency == congruencySequence[i]
        previousCongruency == IF i > 1 THEN congruencySequence[i - 1] ELSE NullString
        iti == sampleFromDistribution(blockConfig.iti, rnd.iti)
        soa == sampleSoa(blockConfig, rnd.soa)
        dir == assignDirections(task1, congruency, blockConfig.paradigm,
                                blockConfig.rso, rnd.dir)
        spec == [task1 |-> task1,
                 task2 |-> task2,
                 csi |-> blockConfig.csi,
                 dur_ch1 |-> blockConfig.stimulusDuration,
                 dur_ch2 |-> IF isDualTask THEN blockConfig.stimulusDuration ELSE 0,
                 soa |-> soaOrZero(soa.value),
                 responseWindow |-> blockConfig.responseWindow,
                 coherence |-> blockConfig.coherence,
                 dir |-> dir]
        seParams == buildTrialParams(spec)
        meta == [trialNumber |-> i,
                 blockId |-> blockConfig.blockId,
                 blockType |-> blockConfig.blockType,
                 paradigm |-> blockConfig.paradigm,
                 task |-> task1,
                 task2 |-> task2,
                 transitionType |-> transitions[i],
                 congruency |-> congruency,
                 previousCongruency |-> previousCongruency,
                 iti |-> iti.value,
                 soa |-> soa.value,
                 primaryDirection |-> dir.ch1_task,
                 distractorDirection |->
                     IF congruency = "univalent" THEN Null ELSE dir.ch1_distractor,
                 ch2Direction |-> IF isDualTask THEN dir.ch2_task ELSE Null]
    IN  IF iti.kind = "throw" THEN iti
        ELSE IF soa.kind = "throw" THEN soa
        ELSE IF seParams.kind = "throw" THEN seParams
        ELSE Return([seParams |-> seParams.value, meta |-> meta])

\* deliberately wrong variant of assembleTrials: the loop stops one trial
\* early
RECURSIVE assembleTrials_oneShort(_, _, _, _, _, _, _)
assembleTrials_oneShort(trials, i, blockConfig, numTrials, taskSequence, congruencySequence, rnd) ==
    IF i >= numTrials THEN Return(trials)
    ELSE LET t == assembleTrial(blockConfig, i, taskSequence,
                                classifyTransitions(taskSequence),
                                congruencySequence, rnd[i])
         IN  IF t.kind = "throw" THEN t
             ELSE assembleTrials_oneShort(Append(trials, t.value), i + 1,
                      blockConfig, numTrials, taskSequence, congruencySequence, rnd)

\* "for (let i = 0; i < numTrials; i++)": the trials from position i on
RECURSIVE assembleTrials(_, _, _, _, _, _, _)
assembleTrials(trials, i, blockConfig, numTrials, taskSequence, congruencySequence, rnd) ==
    IF i > numTrials THEN Return(trials)
    ELSE LET t == assembleTrial(blockConfig, i, taskSequence,
                                classifyTransitions(taskSequence),
                                congruencySequence, rnd[i])
         IN  IF t.kind = "throw" THEN t
             ELSE assembleTrials(Append(trials, t.value), i + 1, blockConfig,
                                 numTrials, taskSequence, congruencySequence, rnd)

\* rnd.task: draws of generateTaskSequence; rnd.shuffle: draws of the
\* congruency shuffle; rnd.trials[i]: draws of trial i
generateBlockTrials(blockConfig, numTrials, rnd) ==
    LET isDualTask == blockConfig.paradigm = "dual-task"
        taskSequence ==
            generateTaskSequence(numTrials, blockConfig.sequenceType,
                blockConfig.switchRate,
                IF isDualTask THEN blockConfig.task1 ELSE blockConfig.startTask,
                rnd.task)
        congruencySequence ==
            generateCongruencySequence(numTrials, blockConfig.congruency.conditions,
                blockConfig.congruency.proportions, rnd.shuffle)
    IN  IF taskSequence.kind = "throw" THEN taskSequence
        ELSE assembleTrials(<<>>, 1, blockConfig, numTrials, taskSequence.value,
                            congruencySequence, rnd.trials)

----------------------------------------------------------------------------
(* Inputs of the parameter builder *)

Tasks == {"mov", "or"}

CsiValues == {0, 200}

DurCh1Values == {300}

DurCh2Values == {0, 300}

SoaValues == {100, 400}

ResponseWindowValues == {2000}

\* coherence in tenths: 8 stands for 0.8, 6 for 0.6
CoherenceSets ==
    [ch1_task: {0, 8}, ch1_distractor: {0, 8}, ch2_task: {0, 6}, ch2_distractor: {0, 6}]

\* a direction object; a slot holds undefined when the property is absent
DirSets ==
    [ch1_task: {Undefined, Num(0), Num(180)},
     ch1_distractor: {Num(0), Num(180)},
     ch2_task: {Undefined, Num(180)},
     ch2_distractor: {Num(0)}]

\* the object generateBlockTrials assembles (engine.js:411-421) and the
\* tests pass; dir is undefined when the object has no dir property
TrialSpecs ==
    [task1: Tasks, task2: Tasks \cup {TaskNull},
     csi: CsiValues, dur_ch1: DurCh1Values, dur_ch2: DurCh2Values,
     soa: SoaValues, responseWindow: ResponseWindowValues,
     coherence: CoherenceSets,
     dir: DirSets \cup {Undefined}]

\* the properties the second declaration destructures and reads; a TrialSpec
\* as above has none of stimulusDuration, dir_1, dir_2 (all three undefined)
TrialSpecs2 ==
    [task1: Tasks, task2: Tasks \cup {TaskNull},
     csi: CsiValues, soa: SoaValues,
     stimulusDuration: {Undefined, Num(300)},
     dir_1: {Undefined, Num(0), Num(180)},
     dir_2: {Undefined, Num(0), Num(180)}]

----------------------------------------------------------------------------
(* Session runner (session.js, kept in src/unnamed/part_000 from line 126  *)
(* on).  The closure of Session holds isRunning, allTrialData and          *)
(* currentSessionDef; canvasContainer only names the DOM element the       *)
(* screens are drawn in and is left out.  runSession is an async function: *)
(* each call runs until its next await, and continues when the awaited     *)
(* promise resolves (a timer, a key press, the rendering engine).  Nothing *)
(* else runs in between, so each action below is one such stretch.         *)
(*                                                                         *)
(* runs[r] is the r-th call of runSession: pc names the await it is        *)
(* suspended at, b and i are the loop variables of runSession and          *)
(* runBlock, trials is trials.length of the block being run.  stopped and  *)
(* exported record that stopSession was called while the call was running  *)
(* and that the call reached enableExport; no code reads them.             *)

MaxSessionRuns == 2

MaxSessionTrials == 2

Runs == 1..MaxSessionRuns

BlockDef(numTrials, instructions) ==
    [numTrials |-> numTrials, instructions |-> instructions]

\* session definitions: blocks with and without an instructions text
SessionDefs ==
    { <<BlockDef(MaxSessionTrials, TRUE), BlockDef(1, FALSE)>>,
      <<BlockDef(1, TRUE)>> }

NotStarted ==
    [pc |-> "notStarted", sessionDef |-> <<>>, b |-> 0, i |-> 0, trials |-> 0,
     stopped |-> FALSE, exported |-> FALSE]

RECURSIVE runSessionLoop(_, _)

\* runSession after "await runBlock(...)": the inter-block screen, or on to
\* the next block
afterRunBlock(run, running) ==
    IF run.b < Len(run.sessionDef) - 1 /\ running
    THEN [run EXCEPT !.pc = "interBlock"]
    ELSE runSessionLoop([run EXCEPT !.b = run.b + 1], running)

\* the for loop of runBlock at trial i: runTrial awaits sleep(trial.meta.iti)
runBlockLoop(run, running) ==
    IF run.i < run.trials /\ running
    THEN [run EXCEPT !.pc = "sleep"]
    ELSE afterRunBlock(run, running)

\* runBlock up to its first await; generateBlockTrials(blockConfig, numTrials)
\* returns numTrials trials
runBlock(run, running) ==
    LET blockDef == run.sessionDef[run.b + 1]
        entered == [run EXCEPT !.trials = blockDef.numTrials, !.i = 0]
    IN  IF blockDef.instructions
        THEN [entered EXCEPT !.pc = "blockInstructions"]
        ELSE runBlockLoop(entered, running)

\* the for loop of runSession at block b, and the statements after it
runSessionLoop(run, running) ==
    IF run.b < Len(run.sessionDef) /\ running
    THEN runBlock(run, running)
    ELSE IF running
         THEN [run EXCEPT !.pc = "complete"]
         ELSE [run EXCEPT !.pc = "done"]

\* isRunning after a stretch of a call: "isRunning = false" precedes the
\* completion screen
isRunningAfter(run, running) ==
    IF run.pc = "complete" THEN FALSE ELSE running

\* the record runBlock pushes: trial.meta, the extracted response and
\* blockOrder; the fields that tell records apart are kept
trialData(r, run) ==
    [run |-> r, blockOrder |-> run.b + 1, trialNumber |-> run.i + 1]

\* a call is running from runSession until it leaves its block loop
Running(run) == run.pc \notin {"notStarted", "complete", "done"}

stopSession(running) == FALSE

----------------------------------------------------------------------------
(* State machine: one action per engine entry point.  fn names the call    *)
(* whose outcome ret holds, and is "idle" after the script is loaded and   *)
(* after the caller took the outcome.  globals holds the properties that   *)
(* calls have added to the global object: engine.js is a plain script      *)
(* (test_engine.js evaluates it with eval, not as a module), so an         *)
(* assignment to an undeclared name creates a global variable.  The second *)
(* declaration of buildTrialParams assigns "params = {...}" without        *)
(* declaring params (engine.js:463); every other function declares its     *)
(* locals with const or let.                                               *)

Init ==
    /\ fn = "idle"
    /\ args = EmptyObj
    /\ ret = Return(EmptyObj)
    /\ globals = EmptyObj
    /\ isRunning = FALSE
    /\ allTrialData = <<>>
    /\ currentSessionDef = <<>>
    /\ runs = [r \in Runs |-> NotStarted]
    /\ exportEnabled = FALSE

\* the caller takes the outcome; nothing of the call is retained
TakeOutcome ==
    /\ fn # "idle"
    /\ fn' = "idle"
    /\ args' = EmptyObj
    /\ ret' = Return(EmptyObj)
    /\ UNCHANGED <<globals, sessionVars>>

Call_buildTrialParams ==
    \E spec \in TrialSpecs :
        /\ fn = "idle"
        /\ UNCHANGED <<globals, sessionVars>>
        /\ fn' = "buildTrialParams"
        /\ args' = [spec |-> spec]
        /\ ret' = buildTrialParams(spec)

Call_buildTrialParams2 ==
    \E spec \in TrialSpecs2 :
        /\ fn = "idle"
        /\ fn' = "buildTrialParams2"
        /\ args' = [spec |-> spec]
        /\ ret' = buildTrialParams2(spec)
        /\ globals' = IF buildTrialParams2(spec).kind = "return"
                       THEN ("params" :> buildTrialParams2(spec).value) @@ globals
                       ELSE globals
        /\ UNCHANGED sessionVars

\* direction values of a spec
DirectionValues == {Num(0), Num(180)}

\* specs for the direction builder: with the nested dir object that
\* generateBlockTrials assembles, and with the flat properties
DirectionSpecs ==
    [task1: Tasks, task2: Tasks \cup {TaskNull},
     dir: [ch1_task: DirectionValues, ch1_distractor: DirectionValues,
           ch2_task: DirectionValues, ch2_distractor: {Num(0)}]]
    \cup
    [task1: Tasks, task2: Tasks \cup {TaskNull},
     dir_ch_1: DirectionValues, dir_distractor_1: DirectionValues,
     dir_ch_2: DirectionValues, dir_distractor_2: {Num(0)}]

Call_buildDirectionParams2 ==
    \E spec \in DirectionSpecs :
        /\ fn = "idle"
        /\ UNCHANGED <<globals, sessionVars>>
        /\ fn' = "buildDirectionParams2"
        /\ args' = [spec |-> spec]
        /\ ret' = Return(buildDirectionParams2(spec))

NextParams ==
    \/ TakeOutcome
    \/ Call_buildTrialParams
    \/ Call_buildTrialParams2
    \/ Call_buildDirectionParams2

\* calls of the parameter builder
SpecParams == Init /\ [][NextParams]_vars

----------------------------------------------------------------------------
(* Inputs of the sequence generators *)

MaxTrials == 4

MaxTrialsAABB == 8

\* "ABAB" stands for any string other than 'Random' and 'AABB'
SequenceTypes == {"Random", "AABB", "ABAB"}

SwitchRates == {0, 50, 100}

\* numTrials ranges the generators are called with
TrialCounts(sequenceType) ==
    0 .. (IF sequenceType = "Random" THEN MaxTrials ELSE MaxTrialsAABB)

\* the draws a call consumes: the coin flip only when startTask is null, one
\* draw per loop iteration only in the Random branch; a draw that is never
\* taken is held as 0
TaskSequenceDraws(numTrials, sequenceType, startTask) ==
    [first: IF startTask = TaskNull THEN RandomValues ELSE {0},
     steps: IF sequenceType = "Random"
            THEN [1 .. (numTrials - 1) -> RandomValues]
            ELSE {[i \in 1 .. (numTrials - 1) |-> 0]}]

MaxCongruencyTrials == 4

\* conditions with their proportions in quarters (each sums to 4 quarters)
CongruencyConfigs ==
    {[conditions |-> <<"univalent">>, proportions |-> <<4>>],
     [conditions |-> <<"congruent", "incongruent">>, proportions |-> <<2, 2>>],
     [conditions |-> <<"congruent", "incongruent", "neutral">>,
      proportions |-> <<1, 1, 2>>],
     [conditions |-> <<"congruent", "incongruent", "neutral", "univalent">>,
      proportions |-> <<1, 1, 1, 1>>]}

\* one draw per iteration of the shuffle loop
ShuffleDraws(numTrials, congruency) ==
    [1 .. (Len(assignCounts(<<>>, 0, 1, numTrials, congruency.conditions,
                            congruency.proportions)) - 1) -> RandomValues]

Call_generateTaskSequence ==
    \E sequenceType \in SequenceTypes, switchRate \in SwitchRates,
       startTask \in Tasks \cup {TaskNull} :
        \E numTrials \in TrialCounts(sequenceType) :
            \E rnd \in TaskSequenceDraws(numTrials, sequenceType, startTask) :
                /\ fn = "idle"
                /\ UNCHANGED <<globals, sessionVars>>
                /\ fn' = "generateTaskSequence"
                /\ args' = [numTrials |-> numTrials, sequenceType |-> sequenceType,
                            switchRate |-> switchRate, startTask |-> startTask,
                            rnd |-> rnd]
                /\ ret' = generateTaskSequence(numTrials, sequenceType, switchRate,
                                               startTask, rnd)

Call_generateTaskSequence2 ==
    \E sequenceType \in SequenceTypes, switchRate \in SwitchRates,
       startTask \in Tasks \cup {TaskNull} :
        \E numTrials \in TrialCounts(sequenceType) :
            \E rnd \in TaskSequenceDraws(numTrials, sequenceType, startTask) :
                /\ fn = "idle"
                /\ UNCHANGED <<globals, sessionVars>>
                /\ fn' = "generateTaskSequence2"
                /\ args' = [numTrials |-> numTrials, sequenceType |-> sequenceType,
                            switchRate |-> switchRate, startTask |-> startTask,
                            rnd |-> rnd]
                /\ ret' = generateTaskSequence2(numTrials, sequenceType, switchRate,
                                                startTask, rnd)

Call_generateCongruencySequence ==
    \E congruency \in CongruencyConfigs, numTrials \in 0 .. MaxCongruencyTrials :
        \E draws \in ShuffleDraws(numTrials, congruency) :
            /\ fn = "idle"
            /\ UNCHANGED <<globals, sessionVars>>
            /\ fn' = "generateCongruencySequence"
            /\ args' = [numTrials |-> numTrials,
                        conditions |-> congruency.conditions,
                        proportions |-> congruency.proportions,
                        draws |-> draws]
            /\ ret' = Return(generateCongruencySequence(numTrials,
                          congruency.conditions, congruency.proportions, draws))

NextSequence ==
    \/ TakeOutcome
    \/ Call_generateTaskSequence
    \/ Call_generateTaskSequence2
    \/ Call_generateCongruencySequence

\* calls of the sequence generators
SpecSequence == Init /\ [][NextSequence]_vars

----------------------------------------------------------------------------
(* Inputs of the block generator *)

MaxBlockTrials == 2

\* for whole blocks the draws are the smallest and the largest one
BlockRandomValues == {0, RandDen - 1}

\* sequenceType with switchRate
Sequencings ==
    {[sequenceType |-> "Random", switchRate |-> 0],
     [sequenceType |-> "Random", switchRate |-> 50],
     [sequenceType |-> "AABB", switchRate |-> 0]}

BlockCongruencies ==
    {[conditions |-> <<"univalent">>, proportions |-> <<4>>],
     [conditions |-> <<"congruent", "incongruent">>, proportions |-> <<2, 2>>]}

\* a block configuration after hirsch.js and the configurations of
\* test_engine.js
BlockConfig(paradigm, task1, startTask, sequencing, congruency) ==
    [blockId |-> "block",
     blockType |-> IF paradigm = "dual-task" THEN "prp" ELSE "mixed",
     paradigm |-> paradigm,
     task1 |-> task1,
     task2 |-> IF paradigm = "dual-task" THEN "or" ELSE TaskNull,
     sequenceType |-> sequencing.sequenceType,
     switchRate |-> sequencing.switchRate,
     startTask |-> startTask,
     csi |-> 200,
     stimulusDuration |-> 300,
     responseWindow |-> 2000,
     rso |-> "identical",
     coherence |-> IF paradigm = "dual-task"
                   THEN [ch1_task |-> 8, ch1_distractor |-> 0,
                         ch2_task |-> 6, ch2_distractor |-> 0]
                   ELSE [ch1_task |-> 8, ch1_distractor |-> 0,
                         ch2_task |-> 0, ch2_distractor |-> 0],
     congruency |-> congruency,
     iti |-> [type |-> "fixed", value |-> 500, params |-> <<>>],
     soa |-> IF paradigm = "dual-task"
             THEN [type |-> "choice", value |-> 100, params |-> <<100, 400>>]
             ELSE [type |-> "fixed", value |-> 0, params |-> <<>>]]

\* iti and soa distributions other than those of BlockConfig: choices, and
\* the unknown type "gaussian"
ChoiceIti == [type |-> "choice", value |-> 500, params |-> <<400, 600>>]

ChoiceSoa == [type |-> "choice", value |-> 100, params |-> <<100, 400>>]

UnknownDistribution == [type |-> "gaussian", value |-> 500, params |-> <<400, 600>>]

\* AABB blocks of either paradigm with those distributions, and blocks with
\* the unknown sequenceType "ABAB"
VariantBlockConfigs ==
    LET aabb == [sequenceType |-> "AABB", switchRate |-> 0]
        univalent == [conditions |-> <<"univalent">>, proportions |-> <<4>>]
        bases == {BlockConfig("single-task", "mov", "mov", aabb, univalent),
                  BlockConfig("dual-task", "mov", TaskNull, aabb, univalent)}
    IN  {[b EXCEPT !.iti = ChoiceIti, !.soa = ChoiceSoa] : b \in bases}
        \cup {[b EXCEPT !.soa = UnknownDistribution] : b \in bases}
        \cup {[b EXCEPT !.iti = UnknownDistribution] : b \in bases}
        \cup {[b EXCEPT !.sequenceType = "ABAB"] : b \in bases}

\* dual-task blocks are seeded by task1 (startTask null, as in hirsch.js),
\* single-task blocks by startTask
BlockConfigs ==
    {BlockConfig("dual-task", task1, TaskNull, sq, cg) :
        task1 \in Tasks, sq \in Sequencings, cg \in BlockCongruencies}
    \cup
    {BlockConfig("single-task", "mov", startTask, sq, cg) :
        startTask \in Tasks \cup {TaskNull}, sq \in Sequencings,
        cg \in BlockCongruencies}
    \cup VariantBlockConfigs

\* whether sampleFromDistribution(config) calls Math.random()
SamplerDraws(config) ==
    IF \/ (config.type = "uniform" /\ HasParams(config) /\ Len(config.params) >= 2)
       \/ (config.type = "choice" /\ HasParams(config) /\ Len(config.params) > 0)
    THEN BlockRandomValues ELSE {0}

\* the draws of one trial; a draw that is never taken is held as 0
TrialDraws(blockConfig) ==
    LET isDualTask == blockConfig.paradigm = "dual-task"
        second == IF isDualTask
                     \/ \E c \in 1 .. Len(blockConfig.congruency.conditions) :
                            blockConfig.congruency.conditions[c] = "neutral"
                  THEN BlockRandomValues ELSE {0}
    IN  [iti: SamplerDraws(blockConfig.iti),
         soa: IF isDualTask THEN SamplerDraws(blockConfig.soa) ELSE {0},
         dir: {<<r1, r2>> : r1 \in BlockRandomValues, r2 \in second}]

\* the draws of one generateBlockTrials call
BlockDraws(blockConfig, numTrials) ==
    LET seed == IF blockConfig.paradigm = "dual-task"
                THEN blockConfig.task1 ELSE blockConfig.startTask
        shuffled == Len(assignCounts(<<>>, 0, 1, numTrials,
                        blockConfig.congruency.conditions,
                        blockConfig.congruency.proportions))
    IN  [task: [first: IF seed = TaskNull THEN BlockRandomValues ELSE {0},
                steps: IF blockConfig.sequenceType = "Random"
                       THEN [1 .. (numTrials - 1) -> BlockRandomValues]
                       ELSE {[i \in 1 .. (numTrials - 1) |-> 0]}],
         shuffle: [1 .. (shuffled - 1) -> BlockRandomValues],
         trials: [1 .. numTrials -> TrialDraws(blockConfig)]]

Call_generateBlockTrials ==
    \E blockConfig \in BlockConfigs, numTrials \in 0 .. MaxBlockTrials :
        \E rnd \in BlockDraws(blockConfig, numTrials) :
            /\ fn = "idle"
            /\ UNCHANGED <<globals, sessionVars>>
            /\ fn' = "generateBlockTrials"
            /\ args' = [blockConfig |-> blockConfig, numTrials |-> numTrials,
                        rnd |-> rnd]
            /\ ret' = generateBlockTrials(blockConfig, numTrials, rnd)

\* the task sequences of length 0 .. MaxTrials
TaskSequences == UNION {[1 .. n -> Tasks] : n \in 0 .. MaxTrials}

Call_classifyTransitions ==
    \E taskSequence \in TaskSequences :
        /\ fn = "idle"
        /\ UNCHANGED <<globals, sessionVars>>
        /\ fn' = "classifyTransitions"
        /\ args' = [taskSequence |-> taskSequence]
        /\ ret' = Return(classifyTransitions(taskSequence))

NextBlock ==
    \/ TakeOutcome
    \/ Call_generateBlockTrials
    \/ Call_generateTaskSequence
    \/ Call_generateTaskSequence2
    \/ Call_classifyTransitions

\* calls of the block generator, and of the task sequence generator and the
\* transition classifier it uses
SpecBlock == Init /\ [][NextBlock]_vars

----------------------------------------------------------------------------
(* Inputs of the distribution sampler and the direction assignment *)

\* "gaussian" stands for any string other than 'fixed', 'uniform', 'choice'
DistributionTypes == {"fixed", "uniform", "choice", "gaussian"}

\* the fallback value of a configuration
DistributionValues == {0, 500}

\* params arrays: empty, too short for uniform, the two orders of [min, max],
\* and a longer list of choices
ParamLists == {<<>>, <<400>>, <<400, 600>>, <<600, 400>>, <<100, 400, 600>>}

\* configurations with a params array and configurations without one
DistributionConfigs ==
    {[type |-> t, value |-> v, params |-> p] :
        t \in DistributionTypes, v \in DistributionValues, p \in ParamLists}
    \cup
    {[type |-> t, value |-> v] : t \in DistributionTypes, v \in DistributionValues}

Congruencies == {"congruent", "incongruent", "neutral", "univalent"}

Paradigms == {"single-task", "dual-task"}

ResponseSetOverlaps == {"identical", "disjoint"}

\* the draws assignDirections takes: two in the dual-task branch and for a
\* neutral distractor, one otherwise; a draw that is never taken is held as 0
DirectionDraws(congruency, paradigm) ==
    {<<r1, r2>> : r1 \in RandomValues,
                  r2 \in IF paradigm = "dual-task" \/ congruency = "neutral"
                         THEN RandomValues ELSE {0}}

Call_sampleFromDistribution ==
    \E config \in DistributionConfigs :
        \E r \in IF SamplerDraws(config) = {0} THEN {0} ELSE RandomValues :
            /\ fn = "idle"
            /\ UNCHANGED <<globals, sessionVars>>
            /\ fn' = "sampleFromDistribution"
            /\ args' = [config |-> config, r |-> r]
            /\ ret' = sampleFromDistribution(config, r)

Call_assignDirections ==
    \E task \in Tasks, congruency \in Congruencies, paradigm \in Paradigms,
       rso \in ResponseSetOverlaps :
        \E rnd \in DirectionDraws(congruency, paradigm) :
            /\ fn = "idle"
            /\ UNCHANGED <<globals, sessionVars>>
            /\ fn' = "assignDirections"
            /\ args' = [task |-> task, congruency |-> congruency,
                        paradigm |-> paradigm, rso |-> rso, rnd |-> rnd]
            /\ ret' = Return(assignDirections(task, congruency, paradigm, rso, rnd))

NextSampling ==
    \/ TakeOutcome
    \/ Call_sampleFromDistribution
    \/ Call_assignDirections

\* calls of the distribution sampler and of the direction assignment
SpecSampling == Init /\ [][NextSampling]_vars

----------------------------------------------------------------------------
(* Response extraction of the session runner (session.js, kept in          *)
(* src/unnamed/part_000 from line 126 on)                                  *)

\* JSON.stringify(v): the JSON text of v, held as the value it encodes
JSONstringify(v) == [json |-> v]

\* data.keyPresses || []
keyPressesOf(data) ==
    IF "keyPresses" \in DOMAIN data THEN data.keyPresses ELSE <<>>

\* the variables of extractResponse before its loop
responseStart(isDualTask) ==
    [rt1_raw |-> Null, rt2_raw |-> Null,
     accuracy1 |-> "miss",
     accuracy2 |-> IF isDualTask THEN "miss" ELSE NullString,
     hadError1 |-> FALSE]

\* deliberately wrong variant of keyPressStep: an error before the first
\* correct keypress is forgotten
keyPressStep_forgetsError(st, kp, isDualTask) ==
    IF kp.isCorrect
    THEN IF st.rt1_raw = Null
         THEN [st EXCEPT !.rt1_raw = Num(kp.time), !.accuracy1 = "correct"]
         ELSE IF isDualTask /\ st.rt2_raw = Null
         THEN [st EXCEPT !.rt2_raw = Num(kp.time), !.accuracy2 = "correct"]
         ELSE st
    ELSE IF st.rt1_raw = Null
         THEN [st EXCEPT !.hadError1 = TRUE, !.accuracy1 = "error"]
         ELSE IF isDualTask /\ st.rt2_raw = Null
         THEN [st EXCEPT !.accuracy2 = "error"]
         ELSE st

\* one iteration of "for (const kp of keyPresses)"
keyPressStep(st, kp, isDualTask) ==
    IF kp.isCorrect
    THEN IF st.rt1_raw = Null
         THEN [st EXCEPT !.rt1_raw = Num(kp.time),
                         !.accuracy1 = IF st.hadError1 THEN "corrected"
                                       ELSE "correct"]
         ELSE IF isDualTask /\ st.rt2_raw = Null
         THEN [st EXCEPT !.rt2_raw = Num(kp.time), !.accuracy2 = "correct"]
         ELSE st
    ELSE IF st.rt1_raw = Null
         THEN [st EXCEPT !.hadError1 = TRUE, !.accuracy1 = "error"]
         ELSE IF isDualTask /\ st.rt2_raw = Null
         THEN [st EXCEPT !.accuracy2 = "error"]
         ELSE st

\* the loop over the keypresses, from keypress i (1-based) on
RECURSIVE keyPressLoop(_, _, _, _)
keyPressLoop(st, i, keyPresses, isDualTask) ==
    IF i > Len(keyPresses) THEN st
    ELSE keyPressLoop(keyPressStep(st, keyPresses[i], isDualTask), i + 1,
                      keyPresses, isDualTask)

extractResponse(data, trial) ==
    LET keyPresses == keyPressesOf(data)
        isDualTask == trial.meta.paradigm = "dual-task"
        st == keyPressLoop(responseStart(isDualTask), 1, keyPresses, isDualTask)
        rt1 == IF st.rt1_raw # Null
               THEN JsSub(st.rt1_raw, trial.seParams.start_go_1) ELSE Null
        rt2 == IF isDualTask /\ st.rt2_raw # Null
               THEN JsSub(st.rt2_raw, trial.seParams.start_go_2) ELSE Null
    IN  [rt1_raw |-> st.rt1_raw,
         rt1 |-> rt1,
         accuracy1 |-> st.accuracy1,
         rt2_raw |-> st.rt2_raw,
         rt2 |-> rt2,
         accuracy2 |-> st.accuracy2,
         rawKeyPresses |-> JSONstringify(keyPresses)]

----------------------------------------------------------------------------
(* Inputs of the response extraction *)

MaxKeyPresses == 3

\* the i-th keypress of a trial falls into the i-th 100 ms after trial onset
KeyPressTimes(i) == {100 * i, 100 * i + 50}

KeyPressLists ==
    UNION {{kps \in [1 .. n -> [isCorrect : BOOLEAN,
                                time : UNION {KeyPressTimes(i) : i \in 1 .. n}]] :
               \A i \in 1 .. n : kps[i].time \in KeyPressTimes(i)} :
           n \in 0 .. MaxKeyPresses}

\* what extractResponse reads of a trial: the paradigm and the two go onsets
ResponseTrials ==
    {[meta |-> [paradigm |-> "single-task"],
      seParams |-> [start_go_1 |-> Num(200), start_go_2 |-> Num(0)]],
     [meta |-> [paradigm |-> "dual-task"],
      seParams |-> [start_go_1 |-> Num(200), start_go_2 |-> Num(300)]]}

\* the data of a trial: with its keypresses, or without a keyPresses property
ResponseData ==
    {[keyPresses |-> kps] : kps \in KeyPressLists} \cup {EmptyObj}

Call_extractResponse ==
    \E data \in ResponseData, trial \in ResponseTrials :
        /\ fn = "idle"
        /\ UNCHANGED <<globals, sessionVars>>
        /\ fn' = "extractResponse"
        /\ args' = [data |-> data, trial |-> trial]
        /\ ret' = Return(extractResponse(data, trial))

NextResponse ==
    \/ TakeOutcome
    \/ Call_extractResponse

\* calls of the response extraction
SpecResponse == Init /\ [][NextResponse]_vars

----------------------------------------------------------------------------
(* Actions of the session runner *)

\* runSession(sessionDef, containerEl), up to its first await.  Nothing in
\* the function looks at isRunning before it sets it.
Call_runSession(r) ==
    /\ runs[r].pc = "notStarted"
    /\ \A q \in Runs : q < r => runs[q].pc # "notStarted"
    /\ \E sessionDef \in SessionDefs :
         LET run == runSessionLoop([NotStarted EXCEPT !.sessionDef = sessionDef],
                                   TRUE)
         IN  /\ currentSessionDef' = sessionDef
             /\ allTrialData' = <<>>
             /\ isRunning' = isRunningAfter(run, TRUE)
             /\ runs' = [runs EXCEPT ![r] = run]
    /\ UNCHANGED <<exportEnabled, engineVars>>

\* stopSession()
Call_stopSession ==
    /\ \E r \in Runs : runs[r].pc # "notStarted"
    /\ isRunning' = stopSession(isRunning)
    /\ runs' = [r \in Runs |->
                  IF Running(runs[r]) THEN [runs[r] EXCEPT !.stopped = TRUE]
                                      ELSE runs[r]]
    /\ UNCHANGED <<allTrialData, currentSessionDef, exportEnabled, engineVars>>

\* a key press dismisses the instructions of a block: runBlock goes on
KeyDown_blockInstructions(r) ==
    /\ runs[r].pc = "blockInstructions"
    /\ LET run == runBlockLoop(runs[r], isRunning)
       IN  /\ runs' = [runs EXCEPT ![r] = run]
           /\ isRunning' = isRunningAfter(run, isRunning)
    /\ UNCHANGED <<allTrialData, currentSessionDef, exportEnabled, engineVars>>

\* a key press dismisses the inter-block screen: runSession goes on
KeyDown_interBlock(r) ==
    /\ runs[r].pc = "interBlock"
    /\ LET run == runSessionLoop([runs[r] EXCEPT !.b = runs[r].b + 1], isRunning)
       IN  /\ runs' = [runs EXCEPT ![r] = run]
           /\ isRunning' = isRunningAfter(run, isRunning)
    /\ UNCHANGED <<allTrialData, currentSessionDef, exportEnabled, engineVars>>

\* a key press dismisses the completion screen: enableExport()
KeyDown_complete(r) ==
    /\ runs[r].pc = "complete"
    /\ runs' = [runs EXCEPT ![r] = [runs[r] EXCEPT !.pc = "done",
                                                   !.exported = TRUE]]
    /\ exportEnabled' = TRUE
    /\ UNCHANGED <<isRunning, allTrialData, currentSessionDef, engineVars>>

\* the timer of sleep(trial.meta.iti) fires: runTrial calls seBlock
SleepElapsed(r) ==
    /\ runs[r].pc = "sleep"
    /\ runs' = [runs EXCEPT ![r] = [runs[r] EXCEPT !.pc = "seBlock"]]
    /\ UNCHANGED <<isRunning, allTrialData, currentSessionDef, exportEnabled,
                   engineVars>>

\* seBlock resolves with the data of the trial: runTrial calls seEndBlock
SeBlockResolved(r) ==
    /\ runs[r].pc = "seBlock"
    /\ runs' = [runs EXCEPT ![r] = [runs[r] EXCEPT !.pc = "seEndBlock"]]
    /\ UNCHANGED <<isRunning, allTrialData, currentSessionDef, exportEnabled,
                   engineVars>>

\* seEndBlock resolves: runTrial returns, runBlock pushes the record and
\* goes round its loop
SeEndBlockResolved(r) ==
    /\ runs[r].pc = "seEndBlock"
    /\ allTrialData' = Append(allTrialData, trialData(r, runs[r]))
    /\ LET run == runBlockLoop([runs[r] EXCEPT !.i = runs[r].i + 1], isRunning)
       IN  /\ runs' = [runs EXCEPT ![r] = run]
           /\ isRunning' = isRunningAfter(run, isRunning)
    /\ UNCHANGED <<currentSessionDef, exportEnabled, engineVars>>

RunnerStep(r) ==
    \/ KeyDown_blockInstructions(r)
    \/ KeyDown_interBlock(r)
    \/ KeyDown_complete(r)
    \/ SleepElapsed(r)
    \/ SeBlockResolved(r)
    \/ SeEndBlockResolved(r)

\* the page calls runSession and stopSession whenever it likes
NextSession ==
    \/ \E r \in Runs : Call_runSession(r)
    \/ Call_stopSession
    \/ \E r \in Runs : RunnerStep(r)

SpecSession == Init /\ [][NextSession]_vars

----------------------------------------------------------------------------
(* Claims about the parameter builder *)

Pathways == {"mov", "or"}

ParamsReturned == fn = "buildTrialParams" /\ ret.kind = "return"

\* what the presentation engine computes for channel-2 pathway X:
\* start_X_2 + (start_X_1 + dur_X_1)
AbsoluteCh2Start(p, X) ==
    JsAdd(p["start_" \o X \o "_2"],
          JsAdd(p["start_" \o X \o "_1"], p["dur_" \o X \o "_1"]))

PathwayNames == {"mov_1", "or_1", "mov_2", "or_2"}

RequiredDirectionAbsent ==
    \/ /\ fn = "buildTrialParams"
       /\ \/ args.spec.dir = Undefined
          \/ args.spec.dir.ch1_task = Undefined
          \/ (args.spec.task2 \in Tasks /\ args.spec.dir.ch2_task = Undefined)
    \/ /\ fn = "buildTrialParams2"
       /\ \/ args.spec.dir_1 = Undefined
          \/ (args.spec.task2 \in Tasks /\ args.spec.dir_2 = Undefined)

\* C3 (as claimed): for every spec that carries its direction values,
\* buildTrialParams returns a record with exactly 26 fields, none of them
\* undefined or NaN.
C3_Exactly26DefinedFields ==
    (fn \in {"buildTrialParams", "buildTrialParams2"} /\ ~RequiredDirectionAbsent) =>
        /\ ret.kind = "return"
        /\ Cardinality(DOMAIN ret.value) = 26
        /\ \A f \in DOMAIN ret.value :
            f \in {"task_1", "task_2"} \/ ret.value[f].k \notin {"undefined", "NaN"}

\* C5 (as claimed): buildTrialParams fails with an error whenever a required
\* direction value is absent from the spec.
C5_MissingDirectionFails ==
    RequiredDirectionAbsent => ret.kind = "throw"

----------------------------------------------------------------------------
(* Claims about the sequence generators *)

TaskSequenceReturned ==
    /\ fn \in {"generateTaskSequence", "generateTaskSequence2"}
    /\ ret.kind = "return"

\* C6 (as claimed): for every n, n = 0 included, generateTaskSequence returns
\* a sequence of length exactly n.
C6_TaskSequenceLength ==
    TaskSequenceReturned => Len(ret.value) = args.numTrials

\* the run-length-2 alternation anchored at the first element: element i
\* (0-based) equals the first element iff floor(i / 2) is even
AlternatesInRunsOfTwo(seq, n) ==
    \A i \in 0 .. (n - 1) : (seq[i + 1] = seq[1]) <=> ((i \div 2) % 2 = 0)

\* C7 (as claimed): with sequenceType AABB generateTaskSequence returns the
\* run-length-2 alternation A,A,B,B,A,A,B,B,...
C7_AabbRunsOfTwo ==
    (TaskSequenceReturned /\ args.sequenceType = "AABB") =>
        AlternatesInRunsOfTwo(ret.value, args.numTrials)

\* the first declaration alone does produce the alternation
AabbFirstDeclarationAlternates ==
    (fn = "generateTaskSequence" /\ ret.kind = "return"
        /\ args.sequenceType = "AABB") =>
        /\ AlternatesInRunsOfTwo(ret.value, args.numTrials)
        /\ (args.numTrials = 8 /\ args.startTask = "mov" =>
               ret.value = <<"mov", "mov", "or", "or", "mov", "mov", "or", "or">>)

\* C8: Random with a given startTask: switchRate 0 makes every element
\* startTask, switchRate 100 makes every adjacent pair differ, whatever the
\* draws.
C8_RandomExtremes ==
    (TaskSequenceReturned /\ args.sequenceType = "Random"
        /\ args.startTask # TaskNull) =>
        /\ (args.switchRate = 0 =>
               \A i \in 1 .. Len(ret.value) : ret.value[i] = args.startTask)
        /\ (args.switchRate = 100 =>
               \A i \in 2 .. Len(ret.value) : ret.value[i] # ret.value[i - 1])

\* C8 witness: a switchRate-100 sequence of at least three elements that was
\* produced from the largest draw, and alternates.
C8_Witness ==
    /\ fn = "generateTaskSequence" /\ ret.kind = "return"
    /\ args.sequenceType = "Random" /\ args.startTask = "mov"
    /\ args.switchRate = 100 /\ args.numTrials >= 3
    /\ \A i \in 1 .. (args.numTrials - 1) : args.rnd.steps[i] = RandDen - 1
    /\ ret.value[1] = "mov" /\ ret.value[2] = "or" /\ ret.value[3] = "mov"

\* C10 (as claimed): generateCongruencySequence returns a sequence of length
\* exactly n for every input.
C10_CongruencyLength ==
    fn = "generateCongruencySequence" => Len(ret.value) = args.numTrials

----------------------------------------------------------------------------
(* Claims about the block generator *)

\* the seed task of a block: task1 for dual-task, startTask otherwise
SeedTask(blockConfig) ==
    IF blockConfig.paradigm = "dual-task"
    THEN blockConfig.task1 ELSE blockConfig.startTask

----------------------------------------------------------------------------
(* Claims about the congruency sequence *)

\* the number of positions of seq that hold label
Occurrences(seq, label) == Cardinality({i \in 1 .. Len(seq) : seq[i] = label})

\* the sum of round(n * proportion) over the first k conditions
RECURSIVE RoundedSum(_, _, _)
RoundedSum(n, proportions, k) ==
    IF k = 0 THEN 0
    ELSE roundCount(n, proportions[k]) + RoundedSum(n, proportions, k - 1)

\* C11 (as claimed): in the returned, shuffled sequence every condition but
\* the last occurs exactly round(n * proportion) times and the last one
\* exactly n minus the sum of those counts.
C11_CongruencyCounts ==
    fn = "generateCongruencySequence" =>
        LET k == Len(args.conditions)
        IN  /\ \A i \in 1 .. (k - 1) :
                Occurrences(ret.value, args.conditions[i]) =
                    roundCount(args.numTrials, args.proportions[i])
            /\ Occurrences(ret.value, args.conditions[k]) =
                    args.numTrials
                    - RoundedSum(args.numTrials, args.proportions, k - 1)

\* the counts are as stated whenever the rounded counts of the conditions
\* before the last do not exceed n
CongruencyCountsUnlessOverAssigned ==
    (fn = "generateCongruencySequence"
        /\ RoundedSum(args.numTrials, args.proportions, Len(args.conditions) - 1)
               <= args.numTrials) =>
        C11_CongruencyCounts

----------------------------------------------------------------------------
(* Claims about transitions *)

\* the label of position i (1-based) of a sequence of tasks
TransitionLabel(tasks, i) ==
    IF i = 1 THEN "First"
    ELSE IF tasks[i] = tasks[i - 1] THEN "Repeat" ELSE "Switch"

----------------------------------------------------------------------------
(* Claims about the direction assignment *)

DirectionsReturned(paradigm) ==
    fn = "assignDirections" /\ ret.kind = "return" /\ args.paradigm = paradigm

\* C13: for single-task, whatever the draws, ch1_task is 0 or 180, both
\* channel-2 directions are 0, and ch1_distractor is ch1_task when congruent,
\* the other of 0 and 180 when incongruent, 90 or 270 when neutral, 0 when
\* univalent.
C13_SingleTaskDirections ==
    DirectionsReturned("single-task") =>
        LET d == ret.value
            other == IF d.ch1_task = Num(0) THEN Num(180) ELSE Num(0)
        IN  /\ d.ch1_task \in {Num(0), Num(180)}
            /\ d.ch2_task = Num(0) /\ d.ch2_distractor = Num(0)
            /\ (args.congruency = "congruent" => d.ch1_distractor = d.ch1_task)
            /\ (args.congruency = "incongruent" => d.ch1_distractor = other)
            /\ (args.congruency = "neutral" =>
                   d.ch1_distractor \in {Num(90), Num(270)})
            /\ (args.congruency = "univalent" => d.ch1_distractor = Num(0))

\* C13 witness: an incongruent single-task call whose primary direction is
\* 180 and whose distractor direction is 0.
C13_Witness ==
    /\ DirectionsReturned("single-task")
    /\ args.congruency = "incongruent"
    /\ ret.value.ch1_task = Num(180)
    /\ ret.value.ch1_distractor = Num(0)

\* the results assignDirections can return for the given arguments
DirectionResults(task, congruency, paradigm, rso) ==
    {assignDirections(task, congruency, paradigm, rso, rnd) :
        rnd \in DirectionDraws(congruency, paradigm)}

----------------------------------------------------------------------------
(* Claims about dual-task blocks *)

DualTaskBlockReturned ==
    /\ fn = "generateBlockTrials" /\ ret.kind = "return"
    /\ args.blockConfig.paradigm = "dual-task"

Elements(params) == {params[j] : j \in 1 .. Len(params)}

----------------------------------------------------------------------------
(* Claims about the distribution sampler *)

SamplerCalled == fn = "sampleFromDistribution"

\* uniform with at least two params, or choice with at least one
ParamsUsable(config) ==
    /\ "params" \in DOMAIN config
    /\ Len(config.params) >= (IF config.type = "uniform" THEN 2 ELSE 1)

\* C17: the value returned lies in the declared support: config.value for
\* fixed, whatever params is; between the smaller and the larger of
\* params[0] and params[1] for uniform, in either order; an element of params
\* for choice.
C17_SampleWithinSupport ==
    SamplerCalled =>
        LET config == args.config
        IN  /\ config.type = "fixed" => ret = Return(Num(config.value))
            /\ (config.type = "uniform" /\ ParamsUsable(config)) =>
                /\ ret.kind = "return" /\ ret.value.k = "number"
                /\ \E lo, hi \in {config.params[1], config.params[2]} :
                    /\ lo <= hi
                    /\ lo <= ret.value.n /\ ret.value.n <= hi
            /\ (config.type = "choice" /\ ParamsUsable(config)) =>
                /\ ret.kind = "return" /\ ret.value.k = "number"
                /\ ret.value.n \in Elements(config.params)

\* C17 witness: a uniform sample strictly inside the interval, from params
\* given as [max, min] and a fallback value outside the interval.
C17_Witness ==
    /\ SamplerCalled /\ ret.kind = "return"
    /\ args.config.type = "uniform" /\ ParamsUsable(args.config)
    /\ args.config.params[1] = 600 /\ args.config.params[2] = 400
    /\ args.config.value = 0
    /\ args.r = RandDen - 1
    /\ ret.value.n > 400 /\ ret.value.n < 600

\* C18: a type other than fixed, uniform and choice fails with an error; no
\* value is returned, config.value included.
C18_UnknownTypeFails ==
    (SamplerCalled /\ args.config.type \notin {"fixed", "uniform", "choice"}) =>
        ret.kind = "throw"

\* C18 witness: a call with the unknown type and a usable value and params
\* that failed.
C18_Witness ==
    /\ SamplerCalled
    /\ args.config.type = "gaussian"
    /\ "params" \in DOMAIN args.config /\ Len(args.config.params) >= 2
    /\ args.config.value = 500
    /\ ret.kind = "throw"

\* C20: uniform with params missing or shorter than 2, and choice with params
\* missing or empty, return config.value and do not fail.
C20_ParamGapsFallBack ==
    (SamplerCalled /\ args.config.type \in {"uniform", "choice"}
        /\ ~ParamsUsable(args.config)) =>
        ret = Return(Num(args.config.value))

\* C20 witness: a uniform call with a one-element params array that returned
\* the fallback value 500.
C20_Witness ==
    /\ SamplerCalled
    /\ args.config.type = "uniform"
    /\ "params" \in DOMAIN args.config /\ Len(args.config.params) = 1
    /\ args.config.value = 500
    /\ ret = Return(Num(500))

----------------------------------------------------------------------------
(* Claims about unknown sequence types *)

\* C19: generateTaskSequence with a sequenceType other than Random and AABB
\* fails with an error and returns no sequence, for every n, switchRate and
\* startTask.
C19_UnknownSequenceTypeFails ==
    (fn \in {"generateTaskSequence", "generateTaskSequence2"}
        /\ args.sequenceType \notin {"Random", "AABB"}) =>
        ret.kind = "throw"

\* C19 witness: a call with the unknown type, numTrials = 0 and no startTask
\* that failed.
C19_Witness ==
    /\ fn = "generateTaskSequence"
    /\ args.sequenceType = "ABAB"
    /\ args.numTrials = 0 /\ args.startTask = TaskNull
    /\ args.switchRate = 100
    /\ ret.kind = "throw"

----------------------------------------------------------------------------
(* Claims about the trial list of a block *)

BlockReturned == fn = "generateBlockTrials" /\ ret.kind = "return"

----------------------------------------------------------------------------
(* Claims about the fields of the parameter record *)

Channel2Fields ==
    {"start_2", "dur_2", "start_go_2", "dur_go_2",
     "start_mov_2", "dur_mov_2", "start_or_2", "dur_or_2",
     "coh_mov_2", "coh_or_2", "dir_mov_2", "dir_or_2"}

----------------------------------------------------------------------------
(* Claims about single-task blocks and about configuration errors *)

KnownDistributionTypes == {"fixed", "uniform", "choice"}

\* C26 (as claimed): generateBlockTrials fails whenever the block config has
\* an unknown sequenceType or an iti or soa distribution of unknown type.
C26_ConfigErrorsFail ==
    (fn = "generateBlockTrials"
        /\ \/ args.blockConfig.sequenceType \notin {"Random", "AABB"}
           \/ args.blockConfig.iti.type \notin KnownDistributionTypes
           \/ args.blockConfig.soa.type \notin KnownDistributionTypes) =>
        ret.kind = "throw"

\* the configuration errors do fail once a trial needs the setting: an
\* unknown sequenceType always, an unknown iti type when there is a trial, an
\* unknown soa type when there is a trial and the block is dual-task
ConfigErrorsFailWhenReached ==
    (fn = "generateBlockTrials"
        /\ \/ args.blockConfig.sequenceType \notin {"Random", "AABB"}
           \/ /\ args.numTrials >= 1
              /\ args.blockConfig.iti.type \notin KnownDistributionTypes
           \/ /\ args.numTrials >= 1
              /\ args.blockConfig.paradigm = "dual-task"
              /\ args.blockConfig.soa.type \notin KnownDistributionTypes) <=>
        (fn = "generateBlockTrials" /\ ret.kind = "throw")

----------------------------------------------------------------------------
(* Claims about routing and channel timing *)

OtherPathway(X) == IF X = "mov" THEN "or" ELSE "mov"

\* the coh fields of channel ch route the coherences of the spec by task
CoherenceRouted(p, spec, ch, task) ==
    /\ p["coh_" \o task \o "_" \o ch] = Num(spec.coherence["ch" \o ch \o "_task"])
    /\ p["coh_" \o OtherPathway(task) \o "_" \o ch] =
           Num(spec.coherence["ch" \o ch \o "_distractor"])

\* the dir fields of channel ch route the directions of spec.dir by task
DirectionRouted(p, spec, ch, task) ==
    /\ p["dir_" \o task \o "_" \o ch] = spec.dir["ch" \o ch \o "_task"]
    /\ p["dir_" \o OtherPathway(task) \o "_" \o ch] =
           spec.dir["ch" \o ch \o "_distractor"]

\* the first declarations route coherence and direction alike
RoutingOfFirstDeclarations ==
    ParamsReturned =>
        /\ CoherenceRouted(ret.value, args.spec, "1", args.spec.task1)
        /\ DirectionRouted(ret.value, args.spec, "1", args.spec.task1)
        /\ args.spec.task2 \in Tasks =>
            /\ CoherenceRouted(ret.value, args.spec, "2", args.spec.task2)
            /\ DirectionRouted(ret.value, args.spec, "2", args.spec.task2)

\* the second declaration of buildDirectionParams, given a spec with a dir
\* object, routes the directions of that object
RoutingOfSecondDirectionBuilder ==
    (fn = "buildDirectionParams2" /\ "dir" \in DOMAIN args.spec) =>
        /\ DirectionRouted(ret.value, args.spec, "1", args.spec.task1)
        /\ args.spec.task2 \in Tasks =>
               DirectionRouted(ret.value, args.spec, "2", args.spec.task2)

\* C24 (as claimed): coherence and direction are routed by the same mapping:
\* on each channel the pathway named by the channel's task receives the
\* task values of coherence and dir, the other pathway the distractor values.
C24_SameRouting ==
    RoutingOfFirstDeclarations /\ RoutingOfSecondDirectionBuilder

----------------------------------------------------------------------------
(* Claims about state shared between calls *)

\* C27 (as claimed): a generation call writes no variable that outlives it:
\* whatever calls have been made, the global object holds nothing that a
\* call put there.
C27_CallsAreStateless ==
    globals = EmptyObj

\* generateBlockTrials with the first declaration of buildTrialParams, whose
\* params is a const local, leaves the global object alone
FirstDeclarationsWriteNoGlobal ==
    fn \in {"generateBlockTrials", "buildTrialParams"} => globals = EmptyObj

----------------------------------------------------------------------------
(* Claims about the response extraction *)

\* the positions of the correct keypresses
CorrectPositions(keyPresses) ==
    {i \in 1 .. Len(keyPresses) : keyPresses[i].isCorrect}

\* the k-th smallest element of a set of positions
NthPosition(S, k) ==
    CHOOSE i \in S : Cardinality({j \in S : j < i}) = k - 1

\* C30: rt1_raw is the time of the first correct keypress, null without one;
\* rt2_raw is the time of the second correct keypress of a dual-task trial,
\* null otherwise; a single-task trial has rt2 and accuracy2 null; accuracy1
\* is miss without a keypress, error with incorrect keypresses only, correct
\* when the first correct keypress has no earlier error, corrected when it
\* has one.
C30_ResponsesByPosition ==
    fn = "extractResponse" =>
        LET kps == keyPressesOf(args.data)
            correct == CorrectPositions(kps)
            isDualTask == args.trial.meta.paradigm = "dual-task"
            r == ret.value
        IN  /\ r.rt1_raw = IF correct = {} THEN Null
                           ELSE Num(kps[NthPosition(correct, 1)].time)
            /\ r.rt2_raw = IF isDualTask /\ Cardinality(correct) >= 2
                           THEN Num(kps[NthPosition(correct, 2)].time)
                           ELSE Null
            /\ ~isDualTask => (r.rt2 = Null /\ r.accuracy2 = NullString)
            /\ r.accuracy1 =
                   IF Len(kps) = 0 THEN "miss"
                   ELSE IF correct = {} THEN "error"
                   ELSE IF \E j \in 1 .. (NthPosition(correct, 1) - 1) :
                               ~kps[j].isCorrect
                        THEN "corrected" ELSE "correct"

\* C30 witness: a dual-task trial with an error, then two correct keypresses:
\* the first response is corrected, the second is the third keypress.
C30_Witness ==
    /\ fn = "extractResponse"
    /\ args.trial.meta.paradigm = "dual-task"
    /\ Len(keyPressesOf(args.data)) = 3
    /\ ~args.data.keyPresses[1].isCorrect
    /\ args.data.keyPresses[2].isCorrect /\ args.data.keyPresses[3].isCorrect
    /\ ret.value.accuracy1 = "corrected"
    /\ ret.value.rt1_raw = Num(args.data.keyPresses[2].time)
    /\ ret.value.rt2_raw = Num(args.data.keyPresses[3].time)
    /\ ret.value.accuracy2 = "correct"

----------------------------------------------------------------------------
(* Claims about the session runner *)

\* the calls of runSession whose seBlock call has not yet been followed by
\* the completion of its seEndBlock
InFlight == {r \in Runs : runs[r].pc \in {"seBlock", "seEndBlock"}}

\* C28 (as claimed): whatever the interleaving of runSession calls,
\* stopSession calls, key presses and trial completions, at most one trial is
\* in flight against the rendering engine: no seBlock call is started while
\* an earlier one has not been followed by its seEndBlock completion.
C28_OneTrialInFlight ==
    Cardinality(InFlight) <= 1

\* a page that calls runSession once has at most one trial in flight
OneSessionOneTrialInFlight ==
    runs[2].pc = "notStarted" => Cardinality(InFlight) <= 1

\* the records of call r in the trial log
RecordsOf(r) == SelectSeq(allTrialData, LAMBDA t : t.run = r)

RECURSIVE ExpectedRecords(_, _, _)

\* one record per generated trial, in block order then trial order, from
\* block b on
ExpectedRecords(r, sessionDef, b) ==
    IF b > Len(sessionDef)
    THEN <<>>
    ELSE [i \in 1..sessionDef[b].numTrials |->
            [run |-> r, blockOrder |-> b, trialNumber |-> i]]
         \o ExpectedRecords(r, sessionDef, b + 1)

\* a trial of a call is under way from the call of runTrial to the push of
\* its record
TrialUnderWay(run) == run.pc \in {"sleep", "seBlock", "seEndBlock"}

\* a step in which a stopped call r calls runTrial, shows the inter-block or
\* the completion screen, or enables export
StoppedGoesOn(r) ==
    /\ runs[r].stopped
    /\ \/ runs'[r].pc = "sleep" /\ runs[r].pc # "sleep"
       \/ runs'[r].pc = "interBlock" /\ runs[r].pc # "interBlock"
       \/ runs'[r].pc = "complete" /\ runs[r].pc # "complete"
       \/ runs'[r].exported /\ ~runs[r].exported

\* a step in which a call r that was never stopped enables export while the
\* trial log does not hold exactly its records
UnstoppedExportsOtherLog(r) ==
    /\ ~runs[r].stopped
    /\ runs'[r].exported /\ ~runs[r].exported
    /\ allTrialData # ExpectedRecords(r, runs[r].sessionDef, 1)

\* a call that was never stopped and has returned has enabled export
UnstoppedEndsExported ==
    \A r \in Runs : runs[r].pc = "done" /\ ~runs[r].stopped => runs[r].exported

\* C29 (as claimed): once stopSession has been called on a running session,
\* that session starts no further trial (the trial under way may complete and
\* be logged), shows no inter-block or completion screen and never enables
\* export; a session that is not stopped logs exactly one record per
\* generated trial, in block order then trial order, and then enables export.
C29_StopHaltsSession ==
    /\ [][\A r \in Runs : ~StoppedGoesOn(r) /\ ~UnstoppedExportsOtherLog(r)]_vars
    /\ []UnstoppedEndsExported

\* while runSession has been called once: the stopped session goes no
\* further than the trial whose runTrial call was made, and the unstopped one
\* logs its trials in order and enables export
OneSessionStopHalts ==
    /\ [][runs'[2].pc = "notStarted"
            => ~StoppedGoesOn(1) /\ ~UnstoppedExportsOtherLog(1)]_vars
    /\ [](runs[2].pc = "notStarted" => UnstoppedEndsExported)

\* while runSession has been called once, every state of an unstopped
\* session has logged a prefix of its records
OneSessionLogsInOrder ==
    LET expected == ExpectedRecords(1, runs[1].sessionDef, 1)
    IN  runs[2].pc = "notStarted" /\ ~runs[1].stopped =>
          /\ Len(allTrialData) <= Len(expected)
          /\ allTrialData = SubSeq(expected, 1, Len(allTrialData))

\* stopSession during the inter-trial interval: seBlock is still called for
\* the trial whose runTrial call preceded the stop
StoppedCallsNoSeBlock ==
    [][\A r \in Runs :
          runs[r].stopped /\ runs[r].pc = "sleep" => runs'[r].pc # "seBlock"]_vars

\* states in which the runner has run: a stopped call with a trial under way,
\* and an unstopped call that enabled export
SessionStoppedMidTrial ==
    \E r \in Runs : runs[r].stopped /\ TrialUnderWay(runs[r])

SessionExported ==
    \E r \in Runs : ~runs[r].stopped /\ runs[r].exported

====
